---- MODULE Spec2Model ----
(***************************************************************************)
(* The ZW text format of zwtransformer: the parser parseZW with its        *)
(* validator (src/zwtransformer/index.tsx), the JSON -> ZW serializer      *)
(* convertJsonToZwString (listed in src/README.md) and the ZW -> JSON      *)
(* walk of spec section 4.3.                                               *)
(*                                                                         *)
(* A JavaScript string is modelled as a sequence of one-character strings, *)
(* so that trimming, splitting, regular expressions and quoting are        *)
(* computed character by character.                                        *)
(***************************************************************************)
EXTENDS Integers, Sequences, FiniteSets, TLC

\* ------------------------------------------------------------------------
\* Characters and the string primitives of the JavaScript runtime
\* ------------------------------------------------------------------------

Letters ==
  {"a","b","c","d","e","f","g","h","i","j","k","l","m",
   "n","o","p","q","r","s","t","u","v","w","x","y","z",
   "A","B","C","D","E","F","G","H","I","J","K","L","M",
   "N","O","P","Q","R","S","T","U","V","W","X","Y","Z"}

Digits == {"0","1","2","3","4","5","6","7","8","9"}

\* \s of a JavaScript regular expression and the characters trim() removes
Whitespace == {" ", "\t", "\n", "\r"}

\* [A-Za-z0-9_]: the key alphabet of sectionRegex / keyValueRegex
WordChars == Letters \cup Digits \cup {"_"}

\* [A-Z0-9_-] under the i flag: the key alphabet of rootLineRegex, and the
\* language-tag alphabet of codeFenceRegex
RootChars == WordChars \cup {"-"}

Max(a, b) == IF a >= b THEN a ELSE b
Min(a, b) == IF a <= b THEN a ELSE b

\* s.substring(from) with a 0-based index, as a 1-based suffix
Tail_(s, from) == SubSeq(s, from, Len(s))

AllIn(s, S) == \A k \in 1..Len(s) : s[k] \in S

\* length of the longest prefix of s made of characters of S
PrefixLen(s, S) ==
  IF AllIn(s, S) THEN Len(s)
  ELSE (CHOOSE k \in 1..Len(s) : s[k] \notin S /\ \A j \in 1..(k-1) : s[j] \in S) - 1

\* length of the longest suffix of s made of characters of S
SuffixLen(s, S) ==
  IF AllIn(s, S) THEN Len(s)
  ELSE Len(s) - (CHOOSE k \in 1..Len(s) : s[k] \notin S /\ \A j \in (k+1)..Len(s) : s[j] \in S)

\* String.prototype.trim
Trim(s) == SubSeq(s, PrefixLen(s, Whitespace) + 1, Len(s) - SuffixLen(s, Whitespace))

TrimEnd(s) == SubSeq(s, 1, Len(s) - SuffixLen(s, Whitespace))

\* String.prototype.startsWith
StartsWith(s, p) == Len(s) >= Len(p) /\ SubSeq(s, 1, Len(p)) = p

EndsWith(s, p) == Len(s) >= Len(p) /\ SubSeq(s, Len(s) - Len(p) + 1, Len(s)) = p

\* String.prototype.split on newline: always at least one piece
RECURSIVE SplitLines(_)
SplitLines(s) ==
  IF \A k \in 1..Len(s) : s[k] # "\n" THEN <<s>>
  ELSE LET k == CHOOSE k \in 1..Len(s) : s[k] = "\n" /\ \A j \in 1..(k-1) : s[j] # "\n"
       IN  <<SubSeq(s, 1, k-1)>> \o SplitLines(Tail_(s, k+1))

\* Array.prototype.join with newline
RECURSIVE JoinLines(_)
JoinLines(ls) ==
  IF ls = <<>> THEN <<>>
  ELSE IF Len(ls) = 1 THEN ls[1]
  ELSE ls[1] \o <<"\n">> \o JoinLines(Tail(ls))

\* a space repeated n times (String.prototype.repeat)
Spaces(n) == [k \in 1..n |-> " "]

\* ------------------------------------------------------------------------
\* parseZW: tokenizer
\* ------------------------------------------------------------------------

\* The backquote character (U+0060), which a TLA+ string cannot hold, is
\* written as the atom "BQ".
BQ == "BQ"

Backticks == <<BQ, BQ, BQ>>

\* codeFenceRegex: three backticks, an optional tag [a-zA-Z0-9_-]+, \s*, \n?,
\* the lazy capture ([\s\S]*?), \s*, \n?, three backticks, anchored at both
\* ends and applied to the trimmed input. The match exists iff the text opens and closes with
\* three backticks that do not overlap. The tag and the whitespace after it
\* are greedy, and neither can consume a backtick, so capture 1 starts after
\* them; it is lazy, so it ends before the trailing whitespace.
FenceMatches(p) == Len(p) >= 6 /\ StartsWith(p, Backticks) /\ EndsWith(p, Backticks)

FenceCapture(p) ==
  LET afterOpen == Tail_(p, 4)
      afterTag  == Tail_(afterOpen, PrefixLen(afterOpen, RootChars) + 1)
      afterWs   == Tail_(afterTag, PrefixLen(afterTag, Whitespace) + 1)
  IN  TrimEnd(SubSeq(afterWs, 1, Len(afterWs) - 3))

\* variant: fences are stripped for as long as the text is fenced
RECURSIVE ProcessedStrippingEveryFence(_)
ProcessedStrippingEveryFence(zwString) ==
  LET trimmed == Trim(zwString)
  IN  IF FenceMatches(trimmed) /\ FenceCapture(trimmed) # <<>>
      THEN ProcessedStrippingEveryFence(FenceCapture(trimmed))
      ELSE trimmed

\* processedZwString before the emptiness test: the fence is stripped only
\* when capture 1 is a non-empty (truthy) string
ProcessedZwString(zwString) ==
  LET trimmed == Trim(zwString)
  IN  IF FenceMatches(trimmed) /\ FenceCapture(trimmed) # <<>>
      THEN Trim(FenceCapture(trimmed))
      ELSE trimmed

IsSemantic(line) == Trim(line) # <<>> /\ ~StartsWith(Trim(line), <<"#">>)

SemanticLines(processed) == SelectSeq(SplitLines(processed), IsSemantic)

getIndentation(line) == PrefixLen(line, Whitespace)

\* rootLineRegex = /^([A-Z0-9_-]+(?:-[A-Z0-9_-]+)*):\s*$/i on the untrimmed
\* first semantic line. The key alphabet holds no colon, so capture 1 is the
\* longest prefix over the alphabet.
RootKeyLenOfWordChars(line) == PrefixLen(line, WordChars)

RootKeyLen(line) == PrefixLen(line, RootChars)

RootMatchesWithTrailingText(line) ==
  /\ RootKeyLen(line) >= 1
  /\ Len(line) > RootKeyLen(line)
  /\ line[RootKeyLen(line) + 1] = ":"

RootMatches(line) ==
  /\ RootKeyLen(line) >= 1
  /\ Len(line) > RootKeyLen(line)
  /\ line[RootKeyLen(line) + 1] = ":"
  /\ AllIn(Tail_(line, RootKeyLen(line) + 2), Whitespace)

\* variant: the key keeps the colon that ends it
RootKeyThroughColon(line) == SubSeq(line, 1, RootKeyLen(line) + 1)

RootKey(line) == SubSeq(line, 1, RootKeyLen(line))

\* options?.delimiter || <colon>. The options are a set: empty when no delimiter
\* is passed, else holding the delimiter; the empty string is falsy.
EffectiveDelimiter(options) ==
  IF options = {} \/ options = {<<>>} THEN <<":">> ELSE CHOOSE d \in options : TRUE

\* ------------------------------------------------------------------------
\* parseZW: the regular expressions built from the escaped delimiter
\* ------------------------------------------------------------------------

\* The key lengths k for which ^([A-Za-z0-9_]+) can be followed by the
\* delimiter (escapeRegExp makes the delimiter match literally).
KeyLens(s, delim) ==
  {k \in 1..PrefixLen(s, WordChars) : StartsWith(Tail_(s, k + 1), delim)}

SetMax(S) == CHOOSE m \in S : \A n \in S : n <= m

\* sectionRegex = ^([A-Za-z0-9_]+)<delim>\s*$
SectionKeyLens(s, delim) ==
  {k \in KeyLens(s, delim) : AllIn(Tail_(s, k + Len(delim) + 1), Whitespace)}

\* variant: no line opens a section
SectionNeverMatches(s, delim) == FALSE

SectionMatches(s, delim) == SectionKeyLens(s, delim) # {}

SectionKey(s, delim) == SubSeq(s, 1, SetMax(SectionKeyLens(s, delim)))

\* keyValueRegex = listItemKvRegex = ^([A-Za-z0-9_]+)<delim>\s*(.*)$ ; a line
\* holds no newline, so (.*) takes everything after the whitespace
KeyValueMatches(s, delim) == KeyLens(s, delim) # {}

KeyValueKey(s, delim) == SubSeq(s, 1, SetMax(KeyLens(s, delim)))

KeyValueValue(s, delim) ==
  LET rest == Tail_(s, SetMax(KeyLens(s, delim)) + Len(delim) + 1)
  IN  Tail_(rest, PrefixLen(rest, Whitespace) + 1)

\* ------------------------------------------------------------------------
\* parseZW: the tree
\* ------------------------------------------------------------------------

\* ZWNode and ZWListItem live in an arena (a sequence); a reference is an
\* index into it. kind is "node" or "item". vtype tells whether value is a
\* string (str) or an array (kids, references in insertion order). itemKey
\* is a set: empty when the property is absent. depth is kept doubled,
\* because currentIndent / 2 is not an integer division.
ZWNode(key, vtype, str, depth) ==
  [kind |-> "node", key |-> key, vtype |-> vtype, str |-> str, kids |-> <<>>,
   isKeyValue |-> FALSE, itemKey |-> {}, depth |-> depth]

ZWListItem(str, isKeyValue, itemKey, depth) ==
  [kind |-> "item", key |-> <<>>, vtype |-> "str", str |-> str, kids |-> <<>>,
   isKeyValue |-> isKeyValue, itemKey |-> itemKey, depth |-> depth]

ErrorKey == <<"E", "r", "r", "o", "r", ":", " ", "I", "n", "v", "a", "l", "i", "d", " ", "R", "o", "o", "t">>

ErrorHead == <<"P", "a", "c", "k", "e", "t", " ", "m", "u", "s", "t", " ", "s", "t", "a", "r", "t", " ", "w", "i", "t", "h", " ", "a", " ", "Z", "W", " ", "T", "y", "p", "e", " ", "d", "e", "c", "l", "a", "r", "a", "t", "i", "o", "n", " ", "o", "n", " ", "i", "t", "s", " ", "o", "w", "n", " ", "l", "i", "n", "e", " ", "(", "e", ".", "g", ".", ",", " ", "Z", "W", "-", "R", "E", "Q", "U", "E", "S", "T", ":", ")", ".", " ", "T", "h", "e", " ", "f", "i", "r", "s", "t", " ", "s", "i", "g", "n", "i", "f", "i", "c", "a", "n", "t", " ", "l", "i", "n", "e", " ", "f", "o", "u", "n", "d", " ", "w", "a", "s", ":", " ", "\"">>

ErrorTail == <<"\"", ".", " ", "I", "t", " ", "d", "i", "d", " ", "n", "o", "t", " ", "m", "a", "t", "c", "h", " ", "t", "h", "e", " ", "e", "x", "p", "e", "c", "t", "e", "d", " ", "f", "o", "r", "m", "a", "t", ".", " ", "C", "o", "m", "m", "o", "n", " ", "i", "s", "s", "u", "e", "s", ":", " ", "t", "e", "x", "t", " ", "a", "f", "t", "e", "r", " ", "t", "h", "e", " ", "c", "o", "l", "o", "n", " ", "o", "n", " ", "t", "h", "e", " ", "r", "o", "o", "t", " ", "l", "i", "n", "e", ",", " ", "o", "r", " ", "m", "i", "s", "s", "i", "n", "g", " ", "r", "o", "o", "t", " ", "t", "y", "p", "e", ".">>

\* the number of characters of the offending line the message shows
ShownChars == 70

\* variant: the message never marks the cut
InvalidRootWithoutEllipsis(rootLineContent) ==
  ZWNode(ErrorKey,
         "str",
         ErrorHead \o SubSeq(rootLineContent, 1, Min(ShownChars, Len(rootLineContent)))
                   \o ErrorTail,
         0)

InvalidRoot(rootLineContent) ==
  ZWNode(ErrorKey,
         "str",
         ErrorHead \o SubSeq(rootLineContent, 1, Min(ShownChars, Len(rootLineContent)))
                   \o (IF Len(rootLineContent) > ShownChars THEN <<".", ".", ".">> ELSE <<>>)
                   \o ErrorTail,
         0)

\* rootNode: { key: rootMatch[1], value: [], depth: 0 }
RootNode(rootLineContent) == ZWNode(RootKey(rootLineContent), "arr", <<>>, 0)

\* depth = Math.max(1, currentIndent / 2), doubled
DepthOf(currentIndent) == Max(2, currentIndent)

\* a pop loop that stops at a node of the same depth
RECURSIVE PopStackWhileDeeper(_, _, _)
PopStackWhileDeeper(nodes, stack, depth) ==
  IF Len(stack) > 1 /\ nodes[stack[Len(stack)]].depth > depth
  THEN PopStackWhileDeeper(nodes, SubSeq(stack, 1, Len(stack) - 1), depth)
  ELSE stack

\* while (stack.length > 1) { if (depth > top.depth) break; stack.pop(); }
RECURSIVE PopStack(_, _, _)
PopStack(nodes, stack, depth) ==
  IF Len(stack) > 1 /\ ~(depth > nodes[stack[Len(stack)]].depth)
  THEN PopStack(nodes, SubSeq(stack, 1, Len(stack) - 1), depth)
  ELSE stack

\* variant: the child is put in front of its siblings
PushInFront(nodes, parent, child) ==
  LET withChild == Append(nodes, child)
  IN  [withChild EXCEPT ![parent].kids = <<Len(withChild)>> \o @]

\* parentNode.value.push(child): the child gets the next arena index
Push(nodes, parent, child) ==
  LET withChild == Append(nodes, child)
  IN  [withChild EXCEPT ![parent].kids = Append(@, Len(withChild))]

\* if (parentNode.value === undefined || typeof parentNode.value === string)
\*   parentNode.value = []
ResetValue(nodes, parent) ==
  IF nodes[parent].vtype = "str"
  THEN [nodes EXCEPT ![parent].vtype = "arr", ![parent].str = <<>>, ![parent].kids = <<>>]
  ELSE nodes

\* a list-item branch that keeps the whole content as the value of a
\* key-value item
ListItemKeepingContent(trimmedLine, depth, delim) ==
  LET itemContent == Trim(Tail_(trimmedLine, 3))
  IN  IF KeyValueMatches(itemContent, delim)
      THEN ZWListItem(itemContent, TRUE, {KeyValueKey(itemContent, delim)}, depth)
      ELSE ZWListItem(itemContent, FALSE, {}, depth)

\* the list-item branch
ListItemOf(trimmedLine, depth, delim) ==
  LET itemContent == Trim(Tail_(trimmedLine, 3))
  IN  IF KeyValueMatches(itemContent, delim)
      THEN ZWListItem(KeyValueValue(itemContent, delim), TRUE,
                      {KeyValueKey(itemContent, delim)}, depth)
      ELSE ZWListItem(itemContent, FALSE, {}, depth)

\* the continuation branch: lastChild.value += newline + line.substring(currentIndent)
Continue(nodes, parent, line) ==
  IF nodes[parent].kids = <<>> THEN nodes
  ELSE LET lastChild == nodes[parent].kids[Len(nodes[parent].kids)]
       IN  IF nodes[lastChild].vtype = "str"
           THEN [nodes EXCEPT ![lastChild].str =
                   @ \o <<"\n">> \o Tail_(line, getIndentation(line) + 1)]
           ELSE nodes

\* a loop body that pushes key-value nodes on the stack as it pushes
\* sections
LoopBodyPushingLeaves(st, line, delim) ==
  LET trimmedLine == Trim(line)
      depth       == DepthOf(getIndentation(line))
      stack       == PopStack(st.nodes, st.stack, depth)
      parentNode  == stack[Len(stack)]
      nodes       == ResetValue(st.nodes, parentNode)
  IN  IF StartsWith(trimmedLine, <<"-", " ">>)
      THEN [nodes |-> Push(nodes, parentNode, ListItemOf(trimmedLine, depth, delim)),
            stack |-> stack]
      ELSE IF SectionMatches(trimmedLine, delim)
      THEN LET pushed == Push(nodes, parentNode,
                              ZWNode(SectionKey(trimmedLine, delim), "arr", <<>>, depth))
           IN  [nodes |-> pushed, stack |-> Append(stack, Len(pushed))]
      ELSE IF KeyValueMatches(trimmedLine, delim)
      THEN LET pushed == Push(nodes, parentNode,
                              ZWNode(KeyValueKey(trimmedLine, delim), "str",
                                     KeyValueValue(trimmedLine, delim), depth))
           IN  [nodes |-> pushed, stack |-> Append(stack, Len(pushed))]
      ELSE [nodes |-> Continue(nodes, parentNode, line), stack |-> stack]

\* One iteration of the for loop over semanticLines[1..]. The state is the
\* arena and the stack of open nodes.
LoopBody(st, line, delim) ==
  LET trimmedLine == Trim(line)
      depth       == DepthOf(getIndentation(line))
      stack       == PopStack(st.nodes, st.stack, depth)
      parentNode  == stack[Len(stack)]
      nodes       == ResetValue(st.nodes, parentNode)
  IN  IF StartsWith(trimmedLine, <<"-", " ">>)
      THEN [nodes |-> Push(nodes, parentNode, ListItemOf(trimmedLine, depth, delim)),
            stack |-> stack]
      ELSE IF SectionMatches(trimmedLine, delim)
      THEN LET pushed == Push(nodes, parentNode,
                              ZWNode(SectionKey(trimmedLine, delim), "arr", <<>>, depth))
           IN  [nodes |-> pushed, stack |-> Append(stack, Len(pushed))]
      ELSE IF KeyValueMatches(trimmedLine, delim)
      THEN [nodes |-> Push(nodes, parentNode,
                           ZWNode(KeyValueKey(trimmedLine, delim), "str",
                                  KeyValueValue(trimmedLine, delim), depth)),
            stack |-> stack]
      ELSE [nodes |-> Continue(nodes, parentNode, line), stack |-> stack]

\* What parseZW returns: null, or a node (the arena with the returned node
\* at index 1).
Null == [tag |-> "null", nodes |-> <<>>]

Returned(nodes) == [tag |-> "node", nodes |-> nodes]

RECURSIVE RunLoop(_, _, _, _)
RunLoop(st, lines, i, delim) ==
  IF i > Len(lines) THEN st
  ELSE RunLoop(LoopBody(st, lines[i], delim), lines, i + 1, delim)

parseZW(zwString, options) ==
  LET processed == ProcessedZwString(zwString)
      lines     == SemanticLines(processed)
  IN  IF processed = <<>> \/ lines = <<>> THEN Null
      ELSE IF ~RootMatches(lines[1]) THEN Returned(<<InvalidRoot(lines[1])>>)
      ELSE Returned(RunLoop([nodes |-> <<RootNode(lines[1])>>, stack |-> <<1>>],
                            lines, 2, EffectiveDelimiter(options)).nodes)

\* ------------------------------------------------------------------------
\* JSON values, as JSON.parse returns them
\* ------------------------------------------------------------------------

\* t is one of null, bool, num, str, arr, obj. items holds the elements of
\* an array, or the properties [k, v] of an object in enumeration order.
JNull      == [t |-> "null", b |-> FALSE, n |-> 0, s |-> <<>>, items |-> <<>>]
JBool(b)   == [t |-> "bool", b |-> b,     n |-> 0, s |-> <<>>, items |-> <<>>]
JNum(n)    == [t |-> "num",  b |-> FALSE, n |-> n, s |-> <<>>, items |-> <<>>]
JStr(s)    == [t |-> "str",  b |-> FALSE, n |-> 0, s |-> s,    items |-> <<>>]
JArr(vs)   == [t |-> "arr",  b |-> FALSE, n |-> 0, s |-> <<>>, items |-> vs]
JObj(ps)   == [t |-> "obj",  b |-> FALSE, n |-> 0, s |-> <<>>, items |-> ps]
Prop(k, v) == [k |-> k, v |-> v]

DigitChar == <<"0", "1", "2", "3", "4", "5", "6", "7", "8", "9">>

DigitValue(c) == (CHOOSE d \in 1..10 : DigitChar[d] = c) - 1

\* String(n) for an integer n
RECURSIVE NatToString(_)
NatToString(n) ==
  IF n < 10 THEN <<DigitChar[n + 1]>>
  ELSE NatToString(n \div 10) \o <<DigitChar[(n % 10) + 1]>>

NumberToString(n) == IF n < 0 THEN <<"-">> \o NatToString(0 - n) ELSE NatToString(n)

RECURSIVE DigitsValue(_)
DigitsValue(ds) ==
  IF ds = <<>> THEN 0
  ELSE 10 * DigitsValue(SubSeq(ds, 1, Len(ds) - 1)) + DigitValue(ds[Len(ds)])

\* Number(s) for a string s: whitespace is trimmed, the empty string is 0, a
\* signed run of decimal digits is its value, and a text that is no numeric
\* literal is NaN. (Fractions, exponents, radix prefixes and Infinity are
\* numeric literals too; no string of this model has one of those forms.)
NaN == [nan |-> TRUE, n |-> 0]

Number(s) ==
  LET t      == Trim(s)
      signed == t # <<>> /\ t[1] \in {"+", "-"}
      ds     == IF signed THEN Tail(t) ELSE t
  IN  IF t = <<>> THEN [nan |-> FALSE, n |-> 0]
      ELSE IF ds = <<>> \/ ~AllIn(ds, Digits) THEN NaN
      ELSE [nan |-> FALSE, n |-> IF signed /\ t[1] = "-" THEN 0 - DigitsValue(ds)
                                                          ELSE DigitsValue(ds)]

isNaN(x) == x.nan

\* String(x) for a number x
String(x) == IF x.nan THEN <<"N", "a", "N">> ELSE NumberToString(x.n)

LowerOf ==
  [c \in {"A","B","C","D","E","F","G","H","I","J","K","L","M",
          "N","O","P","Q","R","S","T","U","V","W","X","Y","Z"} |->
     CASE c = "A" -> "a" [] c = "B" -> "b" [] c = "C" -> "c" [] c = "D" -> "d"
       [] c = "E" -> "e" [] c = "F" -> "f" [] c = "G" -> "g" [] c = "H" -> "h"
       [] c = "I" -> "i" [] c = "J" -> "j" [] c = "K" -> "k" [] c = "L" -> "l"
       [] c = "M" -> "m" [] c = "N" -> "n" [] c = "O" -> "o" [] c = "P" -> "p"
       [] c = "Q" -> "q" [] c = "R" -> "r" [] c = "S" -> "s" [] c = "T" -> "t"
       [] c = "U" -> "u" [] c = "V" -> "v" [] c = "W" -> "w" [] c = "X" -> "x"
       [] c = "Y" -> "y" [] c = "Z" -> "z"]

\* String.prototype.toLowerCase
toLowerCase(s) == [k \in 1..Len(s) |-> IF s[k] \in DOMAIN LowerOf THEN LowerOf[s[k]] ELSE s[k]]

TrueText  == <<"t", "r", "u", "e">>
FalseText == <<"f", "a", "l", "s", "e">>
NullText  == <<"n", "u", "l", "l">>

\* ------------------------------------------------------------------------
\* The JSON -> ZW serializer
\* ------------------------------------------------------------------------

JSON_TO_ZW_INDENT_SPACES == 2

formatZwKey(key) == key

Indent(currentIndentLevel) == Spaces(currentIndentLevel * JSON_TO_ZW_INDENT_SPACES)

\* value.toLowerCase() === true | false | null, or
\* value !== "" && !isNaN(Number(value)) && String(Number(value)) === value
isPotentiallyAmbiguous(value) ==
  \/ toLowerCase(value) = TrueText
  \/ toLowerCase(value) = FalseText
  \/ toLowerCase(value) = NullText
  \/ (value # <<>> /\ ~isNaN(Number(value)) /\ String(Number(value)) = value)

\* value.replace(/"/g, backslash + quote)
RECURSIVE EscapeQuotes(_)
EscapeQuotes(s) ==
  IF s = <<>> THEN <<>>
  ELSE (IF s[1] = "\"" THEN <<"\\", "\"">> ELSE <<s[1]>>) \o EscapeQuotes(Tail(s))

Quoted(value) == <<"\"">> \o EscapeQuotes(value) \o <<"\"">>

\* lines.map((line, index) => index === 0 ? line : indent + line)
IndentRest(lines, indent) ==
  [k \in 1..Len(lines) |-> IF k = 1 THEN lines[k] ELSE indent \o lines[k]]

\* the string branch of convertValueToZw
StringToZw(value, currentIndentLevel) ==
  IF value = <<>> THEN <<"\"", "\"">>
  ELSE IF isPotentiallyAmbiguous(value) THEN Quoted(value)
  ELSE IF "\n" \in {value[k] : k \in 1..Len(value)}
  THEN JoinLines(IndentRest(SplitLines(value), Indent(currentIndentLevel)))
  ELSE value

EmptyListText == <<"[", "]", " ", "#", " ", "E", "m", "p", "t", "y", " ", "l", "i", "s", "t">>

\* typeof value === object && value !== null &&
\*   (Object.keys(value).length > 0 || (Array.isArray(value) && value.length > 0))
IsNonEmptyContainer(value) == value.t \in {"arr", "obj"} /\ value.items # <<>>

RECURSIVE convertValueToZw(_, _)
RECURSIVE convertObjectToZwItems(_, _, _)

\* one element of a non-empty array
ArrayItemToZw(item, currentIndentLevel) ==
  LET indent     == Indent(currentIndentLevel)
      itemIndent == Indent(currentIndentLevel + 1)
  IN  IF item.t = "obj"
      THEN LET itemObjectLines ==
                 SplitLines(convertObjectToZwItems(item, currentIndentLevel + 1, TRUE))
           IN  indent \o <<"-", " ">>
                      \o JoinLines(IndentRest(itemObjectLines, itemIndent))
      ELSE indent \o <<"-", " ">> \o convertValueToZw(item, currentIndentLevel + 1)

convertValueToZw(value, currentIndentLevel) ==
  CASE value.t = "null" -> NullText
    [] value.t = "str"  -> StringToZw(value.s, currentIndentLevel)
    [] value.t = "num"  -> NumberToString(value.n)
    [] value.t = "bool" -> IF value.b THEN TrueText ELSE FalseText
    [] value.t = "arr"  ->
         IF value.items = <<>> THEN EmptyListText
         ELSE JoinLines([k \in 1..Len(value.items) |->
                           ArrayItemToZw(value.items[k], currentIndentLevel)])
    [] value.t = "obj"  -> convertObjectToZwItems(value, currentIndentLevel, FALSE)

\* the lines one property pushes
PropertyLines(prop, firstKey, currentIndentLevel, isChildOfListItem) ==
  LET lineStartIndent == IF isChildOfListItem /\ firstKey THEN <<>>
                         ELSE Indent(currentIndentLevel)
  IN  IF IsNonEmptyContainer(prop.v)
      THEN << lineStartIndent \o formatZwKey(prop.k) \o <<":">>,
              convertValueToZw(prop.v, currentIndentLevel + 1) >>
      ELSE << lineStartIndent \o formatZwKey(prop.k) \o <<":", " ">>
                              \o convertValueToZw(prop.v, currentIndentLevel) >>

RECURSIVE Flatten(_)
Flatten(ss) == IF ss = <<>> THEN <<>> ELSE ss[1] \o Flatten(Tail(ss))

convertObjectToZwItems(obj, currentIndentLevel, isChildOfListItem) ==
  JoinLines(Flatten([k \in 1..Len(obj.items) |->
              PropertyLines(obj.items[k], k = 1, currentIndentLevel, isChildOfListItem)]))

\* What JSON.parse(jsonString) does: it returns a value, or throws an error
\* whose message text is chosen by the engine.
Parsed(value)   == [ok |-> TRUE, value |-> value, message |-> <<>>]
Thrown(message) == [ok |-> FALSE, value |-> JNull, message |-> message]

InvalidJsonText == <<"#", " ", "E", "r", "r", "o", "r", ":", " ", "I", "n", "v", "a", "l", "i", "d", " ", "J", "S", "O", "N", " ", "i", "n", "p", "u", "t", ".", "\n", "#", " ">>

JsonArrayRoot == <<"J", "S", "O", "N", "_", "A", "R", "R", "A", "Y", "_", "R", "O", "O", "T", ":">>

JsonPrimitiveRoot == <<"J", "S", "O", "N", "_", "P", "R", "I", "M", "I", "T", "I", "V", "E", "_", "R", "O", "O", "T", ":">>

RootValueKey == <<"R", "O", "O", "T", "_", "V", "A", "L", "U", "E", ":", " ">>

\* rootZwType is a set: empty when the argument is omitted
RootGiven(rootZwType) == rootZwType # {} /\ Trim(CHOOSE r \in rootZwType : TRUE) # <<>>

RootFalsy(rootZwType) == rootZwType = {} \/ rootZwType = {<<>>}

RootLine(rootZwType) == Trim(CHOOSE r \in rootZwType : TRUE) \o <<":">>

convertJsonToZwString(jsonString, rootZwType) ==
  IF ~jsonString.ok THEN InvalidJsonText \o jsonString.message
  ELSE
    LET parsedJson      == jsonString.value
        baseIndentLevel == IF RootGiven(rootZwType) THEN 1 ELSE 0
        header          == IF RootGiven(rootZwType)
                           THEN RootLine(rootZwType) \o <<"\n">> ELSE <<>>
        zwOutput ==
          IF parsedJson.t = "obj"
          THEN header \o convertObjectToZwItems(parsedJson, baseIndentLevel, FALSE)
          ELSE IF parsedJson.t = "arr"
          THEN header
                 \o (IF RootFalsy(rootZwType)
                     THEN (IF RootGiven(rootZwType) THEN <<>> ELSE JsonArrayRoot) \o <<"\n">>
                     ELSE <<>>)
                 \o convertValueToZw(parsedJson, baseIndentLevel)
          ELSE header
                 \o (IF RootFalsy(rootZwType)
                     THEN (IF RootGiven(rootZwType) THEN <<>> ELSE JsonPrimitiveRoot) \o <<"\n">>
                     ELSE <<>>)
                 \o Indent(baseIndentLevel) \o RootValueKey
                 \o convertValueToZw(parsedJson, 0)
    IN  IF Trim(zwOutput) = <<>> /\ RootGiven(rootZwType)
        THEN RootLine(rootZwType)
        ELSE zwOutput

\* ------------------------------------------------------------------------
\* The ZW -> JSON walk (convertZwToJsonObject; its file is not part of the
\* sources, the walk follows section 4.3 of the specification)
\* ------------------------------------------------------------------------

\* the number a scalar text maps to when it is not an integer
JNaN  == [t |-> "nan",  b |-> FALSE, n |-> 0, s |-> <<>>, items |-> <<>>]

\* null on structural failure
JFail == [t |-> "fail", b |-> FALSE, n |-> 0, s |-> <<>>, items |-> <<>>]

\* the scalar-typing rule
ScalarToJson(str) ==
  IF toLowerCase(str) = TrueText THEN JBool(TRUE)
  ELSE IF toLowerCase(str) = FalseText THEN JBool(FALSE)
  ELSE IF String(Number(str)) = str
  THEN (IF isNaN(Number(str)) THEN JNaN ELSE JNum(Number(str).n))
  ELSE IF str = NullText THEN JNull
  ELSE JStr(str)

\* obj[k] = v on a JavaScript object: a known key keeps its place
SetProp(props, k, v) ==
  IF \E j \in 1..Len(props) : props[j].k = k
  THEN [j \in 1..Len(props) |-> IF props[j].k = k THEN Prop(k, v) ELSE props[j]]
  ELSE Append(props, Prop(k, v))

RECURSIVE PropsOf(_)
PropsOf(pairs) ==
  IF pairs = <<>> THEN <<>>
  ELSE SetProp(PropsOf(SubSeq(pairs, 1, Len(pairs) - 1)),
               pairs[Len(pairs)].k, pairs[Len(pairs)].v)

RECURSIVE NodeToJson(_, _)
NodeToJson(nodes, ref) ==
  LET node == nodes[ref]
      kids == [k \in 1..Len(node.kids) |-> NodeToJson(nodes, node.kids[k])]
      kind == {nodes[node.kids[k]].kind : k \in 1..Len(node.kids)}
  IN  IF node.vtype = "str"
      THEN (IF node.kind = "item" /\ node.isKeyValue
            THEN JObj(<<Prop(CHOOSE key \in node.itemKey : TRUE, ScalarToJson(node.str))>>)
            ELSE ScalarToJson(node.str))
      ELSE IF \E k \in 1..Len(kids) : kids[k] = JFail THEN JFail
      ELSE IF kind \subseteq {"node"}
      THEN JObj(PropsOf([k \in 1..Len(kids) |-> Prop(nodes[node.kids[k]].key, kids[k])]))
      ELSE IF kind = {"item"} THEN JArr(kids)
      ELSE JFail

ErrorTag == <<"E", "r", "r", "o", "r", ":">>

IsErrorTagged(res) == res.tag = "node" /\ StartsWith(res.nodes[1].key, ErrorTag)

IsSuccess(res) == res.tag = "node" /\ ~StartsWith(res.nodes[1].key, ErrorTag)

convertZwToJsonObject(res) ==
  IF res.tag = "null" \/ IsErrorTagged(res) THEN JFail ELSE NodeToJson(res.nodes, 1)

\* validateZWContent: parsed !== null (parseZW throws for no string)
validateZWContent(content) == parseZW(content, {}) # Null

\* validateZwContent of the user interface: false for blank content, true
\* for a node whose key does not start with Error:
validateZwContent(content) ==
  IF Trim(content) = <<>> THEN FALSE ELSE IsSuccess(parseZW(content, {}))

\* ------------------------------------------------------------------------
\* Inputs
\* ------------------------------------------------------------------------

\* the most lines a drawn document has
MaxLines == 3

\* the most elements a drawn array has
MaxElems == 2

LinePool ==
  { <<"Z", "W", "-", "T", ":">>,
    <<"F", "O", "O", ":", " ", "b", "a", "r">>,
    <<" ", " ", "a", ":", " ", "1">>,
    <<" ", " ", "s", ":">>,
    <<" ", " ", " ", " ", "-", " ", "x", ":", " ", "1">>,
    <<" ", " ", "-", " ", "p">>,
    <<" ", " ", " ", " ", "m", "o", "r", "e">>,
    <<" ", " ", " ", "b", ":", " ", "2">>,
    <<"M", "Y", "-", "K", "E", "Y", ":", " ", "v">>,
    <<" ", " ", "k", "=", " ", "v">>,
    <<"Z", "W", "-", "T", "=">>,
    <<" ", " ", " ", " ", "t", ":">>,
    <<"#", " ", "n", "o", "t", "e">>,
    <<" ", " ">>,
    Backticks,
    Backticks \o <<"z", "w">> }

\* a root, a section, a section nested in it, and one more line
NestedDocuments ==
  {JoinLines(<< <<"Z", "W", "-", "T", ":">>,
                <<" ", " ", "s", ":">>,
                <<" ", " ", " ", " ", "t", ":">>,
                line >>) : line \in LinePool}

\* a line of n characters that is no root declaration
LongLine(n) == [k \in 1..n |-> IF k <= ShownChars THEN "x" ELSE "y"]

\* documents whose first line is as long as the error message shows, or
\* longer by one character; alone, or followed by one more line
LongDocuments ==
  { LongLine(n) \o rest :
      n \in {ShownChars, ShownChars + 1},
      rest \in {<<>>} \cup {<<"\n">> \o line : line \in LinePool} }

\* documents whose type is named Error
ErrorNamedDocuments ==
  { <<"E", "r", "r", "o", "r", ":">> \o rest :
      rest \in {<<>>} \cup {<<"\n">> \o line : line \in LinePool} }

Documents ==
  {<<>>} \cup {JoinLines(ls) : ls \in UNION {[1..n -> LinePool] : n \in 1..MaxLines}}
         \cup NestedDocuments \cup LongDocuments \cup ErrorNamedDocuments

DelimiterOptions == { {}, {<<"=">>} }

Scalars ==
  { JNull, JBool(TRUE), JBool(FALSE), JNum(42), JNum(0 - 7),
    JStr(<<>>), JStr(<<"4", "2">>), JStr(<<"0", "0", "7">>), JStr(<<"T", "r", "u", "e">>),
    JStr(<<"n", "u", "l", "l">>), JStr(<<"N", "a", "N">>), JStr(<<"h", "i">>),
    JStr(<<"l", "i", "n", "e", "1", "\n", "l", "i", "n", "e", "2">>),
    JStr(<<"a", "\n", "\n", "b">>) }

InnerScalars ==
  { JNum(1), JNum(2), JStr(<<"h", "i">>), JStr(<<" ", "h", "i">>),
    JStr(<<"l", "i", "n", "e", "1", "\n", "l", "i", "n", "e", "2">>) }

ElemObjects ==
  {JObj(<<Prop(<<"x">>, v)>>) : v \in InnerScalars}
    \cup { JObj(<<Prop(<<"x">>, JNum(1)), Prop(<<"y">>, JStr(<<"h", "i">>))>>),
           JObj(<<Prop(<<"x">>, JStr(<<"h", "i">>)), Prop(<<"y">>, JNum(1))>>),
           JObj(<<Prop(<<"m", "y", "-", "k", "e", "y">>, JNum(1))>>) }

Arrays ==
  {JArr(vs) : vs \in UNION {[1..n -> InnerScalars \cup ElemObjects] : n \in 1..MaxElems}}

ItemsKey == <<"i", "t", "e", "m", "s">>

PropValues ==
  Scalars \cup {JArr(<<>>), JObj(<<>>)} \cup Arrays
    \cup {JObj(<<Prop(ItemsKey, v)>>) : v \in InnerScalars \cup Arrays}

Objects ==
  {JObj(<<>>)}
    \cup {JObj(<<Prop(<<"a">>, v)>>) : v \in PropValues}
    \cup {JObj(<<Prop(ItemsKey, v)>>) : v \in Arrays}
    \cup {JObj(<<Prop(<<"a">>, v), Prop(<<"b">>, w)>>) : v, w \in InnerScalars}

JsonValues == Scalars \cup {JArr(<<>>)} \cup Arrays \cup Objects

\* messages of the SyntaxError JSON.parse throws: one of a single line, and
\* one that quotes the input text, line break included
ErrorMessages ==
  { <<"U", "n", "e", "x", "p", "e", "c", "t", "e", "d", " ", "e", "n", "d", " ", "o", "f", " ", "J", "S", "O", "N", " ", "i", "n", "p", "u", "t">>,
    <<"U", "n", "e", "x", "p", "e", "c", "t", "e", "d", " ", "t", "o", "k", "e", "n", " ", "'", "x", "'", ",", " ", "\"", "[", "1", ",", "\n", "x", "]", "\"", " ", "i", "s", " ", "n", "o", "t", " ", "v", "a", "l", "i", "d", " ", "J", "S", "O", "N">> }

JsonStrings == {Parsed(v) : v \in JsonValues} \cup {Thrown(m) : m \in ErrorMessages}

RootTypes ==
  { {}, {<<"Z", "W", "-", "T", "E", "S", "T">>}, {<<"Z", "W", "-", "T">>}, {<<" ", " ">>} }

NoJson == Thrown(<<>>)

\* ------------------------------------------------------------------------
\* The state machine: one call of convertJsonToZwString (when the text
\* comes from JSON), one call of parseZW on the text, one conversion of the
\* parse result to JSON
\* ------------------------------------------------------------------------

VARIABLES source, jsonString, rootZwType, zwString, options,
          pc, semanticLines, i, nodes, stack, result, jsonObj, valid

vars == <<source, jsonString, rootZwType, zwString, options,
          pc, semanticLines, i, nodes, stack, result, jsonObj, valid>>

NotStarted ==
  /\ semanticLines = <<>>
  /\ i = 0
  /\ nodes = <<>>
  /\ stack = <<>>
  /\ result = Null
  /\ jsonObj = JFail
  /\ valid = FALSE

\* a caller hands a document to parseZW
InitText ==
  /\ source = "text"
  /\ jsonString = NoJson
  /\ rootZwType = {}
  /\ zwString \in Documents
  /\ options \in DelimiterOptions
  /\ pc = "parse"
  /\ NotStarted

\* a caller hands a JSON text and a root type to convertJsonToZwString, and
\* the text it returns to parseZW
Init ==
  /\ source = "json"
  /\ jsonString \in JsonStrings
  /\ rootZwType \in RootTypes
  /\ zwString = <<>>
  /\ options = {}
  /\ pc = "convert"
  /\ NotStarted

\* zwString = convertJsonToZwString(jsonString, rootZwType)
Convert ==
  /\ pc = "convert"
  /\ zwString' = convertJsonToZwString(jsonString, rootZwType)
  /\ pc' = "parse"
  /\ UNCHANGED <<source, jsonString, rootZwType, options,
                 semanticLines, i, nodes, stack, result, jsonObj, valid>>

\* parseZW up to the for loop: the tokenizer, the early returns, the root
ParseBegin ==
  /\ pc = "parse"
  /\ LET processed == ProcessedZwString(zwString)
         lines     == SemanticLines(processed)
     IN  /\ semanticLines' = lines
         /\ IF processed = <<>> \/ lines = <<>>
            THEN /\ result' = Null
                 /\ pc' = "done"
                 /\ UNCHANGED <<i, nodes, stack>>
            ELSE IF ~RootMatches(lines[1])
            THEN /\ result' = Returned(<<InvalidRoot(lines[1])>>)
                 /\ pc' = "done"
                 /\ UNCHANGED <<i, nodes, stack>>
            ELSE /\ nodes' = <<RootNode(lines[1])>>
                 /\ stack' = <<1>>
                 /\ i' = 2
                 /\ pc' = "loop"
                 /\ UNCHANGED result
  /\ UNCHANGED <<source, jsonString, rootZwType, zwString, options, jsonObj, valid>>

\* one iteration of the for loop
ParseLine ==
  /\ pc = "loop"
  /\ i <= Len(semanticLines)
  /\ LET st == LoopBody([nodes |-> nodes, stack |-> stack], semanticLines[i],
                        EffectiveDelimiter(options))
     IN  /\ nodes' = st.nodes
         /\ stack' = st.stack
  /\ i' = i + 1
  /\ UNCHANGED <<source, jsonString, rootZwType, zwString, options,
                 pc, semanticLines, result, jsonObj, valid>>

\* return rootNode
ParseReturn ==
  /\ pc = "loop"
  /\ i > Len(semanticLines)
  /\ result' = Returned(nodes)
  /\ pc' = "done"
  /\ UNCHANGED <<source, jsonString, rootZwType, zwString, options,
                 semanticLines, i, nodes, stack, jsonObj, valid>>

\* jsonObj = convertZwToJsonObject(result)
ToJson ==
  /\ pc = "done"
  /\ jsonObj' = convertZwToJsonObject(result)
  /\ pc' = "json"
  /\ UNCHANGED <<source, jsonString, rootZwType, zwString, options,
                 semanticLines, i, nodes, stack, result, valid>>

\* valid = validateZWContent(zwString)
Validate ==
  /\ pc = "json"
  /\ valid' = validateZWContent(zwString)
  /\ pc' = "validated"
  /\ UNCHANGED <<source, jsonString, rootZwType, zwString, options,
                 semanticLines, i, nodes, stack, result, jsonObj>>

Next == Convert \/ ParseBegin \/ ParseLine \/ ParseReturn \/ ToJson \/ Validate

\* JSON text -> ZW text -> tree -> JSON value
Spec == Init /\ [][Next]_vars

NextText == ParseBegin \/ ParseLine \/ ParseReturn \/ ToJson \/ Validate

\* document -> tree -> JSON value
ParseSpec == InitText /\ [][NextText]_vars

\* the call of parseZW has returned
Returns == pc \in {"done", "json", "validated"}

\* ------------------------------------------------------------------------
\* Properties of parseZW
\* ------------------------------------------------------------------------

\* A bare root declaration: an identifier over [A-Za-z0-9_-], a colon, and
\* nothing but whitespace after it.
ColonAt(line, k) ==
  /\ k > 1
  /\ line[k] = ":"
  /\ \A j \in 1..(k - 1) : line[j] \in Letters \cup Digits \cup {"_", "-"}
  /\ \A j \in (k + 1)..Len(line) : line[j] \in Whitespace

IsBareRootDeclaration(line) == \E k \in 1..Len(line) : ColonAt(line, k)

DeclaredType(line) == SubSeq(line, 1, (CHOOSE k \in 1..Len(line) : ColonAt(line, k)) - 1)

\* C1: when the first semantic line of the document is a bare root
\* declaration TYPE: then, whatever lines follow, parseZW returns a node
\* that is not error-tagged, has depth 0 and has the key TYPE.
C1_BareRootSucceeds ==
  (Returns /\ semanticLines # <<>> /\ IsBareRootDeclaration(semanticLines[1]))
    => /\ result.tag = "node"
       /\ ~StartsWith(result.nodes[1].key, ErrorTag)
       /\ result.nodes[1].kind = "node"
       /\ result.nodes[1].depth = 0
       /\ result.nodes[1].key = DeclaredType(semanticLines[1])

\* a root declaration with a hyphenated type, followed by two more semantic
\* lines, has been parsed
C1_Witness ==
  /\ Returns
  /\ Len(semanticLines) = 3
  /\ IsBareRootDeclaration(semanticLines[1])
  /\ "-" \in {semanticLines[1][k] : k \in 1..Len(semanticLines[1])}
  /\ result.tag = "node"
  /\ Len(result.nodes) = 3

\* C2: when the document has a semantic line and the first one is not a
\* bare root declaration, parseZW returns an error-tagged node (its key
\* starts with Error:) holding a message; it returns neither a node named
\* after the would-be key nor a node with children.
C2_MalformedRootIsError ==
  (Returns /\ semanticLines # <<>> /\ ~IsBareRootDeclaration(semanticLines[1]))
    => /\ result.tag = "node"
       /\ StartsWith(result.nodes[1].key, ErrorTag)
       /\ Len(result.nodes) = 1
       /\ result.nodes[1].vtype = "str"
       /\ result.nodes[1].str # <<>>

\* the document FOO: bar alone has been parsed
C2_Witness ==
  /\ Returns
  /\ zwString = <<"F", "O", "O", ":", " ", "b", "a", "r">>
  /\ IsErrorTagged(result)

\* The text a fence encloses: the whole trimmed input when it is not fenced.
EnclosedText(text) ==
  IF FenceMatches(Trim(text)) THEN Trim(FenceCapture(Trim(text))) ELSE Trim(text)

HasNoContent(text) == SemanticLines(EnclosedText(text)) = <<>>

\* C3: parseZW returns null exactly when the input holds no semantic line
\* after fence-stripping and trimming: empty text, whitespace, only blank
\* and comment lines, or a fence that encloses nothing.
C3_NullIffNoContent ==
  Returns => (result = Null <=> HasNoContent(zwString))

\* ------------------------------------------------------------------------
\* Properties of convertJsonToZwString
\* ------------------------------------------------------------------------

\* convertJsonToZwString has returned
Converted == source = "json" /\ pc # "convert"

OutputLines == SplitLines(zwString)

\* C4: for a jsonString that is not valid JSON the returned text is a
\* comment-only document: every line of it starts with #, whatever the root
\* type.
C4_InvalidJsonIsCommentOnly ==
  (Converted /\ ~jsonString.ok)
    => \A k \in 1..Len(OutputLines) : StartsWith(OutputLines[k], <<"#">>)

\* a root line as the serializer writes it: an identifier, a colon, nothing
\* else
IsRootLine(line) == Len(line) > 1 /\ ColonAt(line, Len(line))

\* C5: for valid JSON and a root type that is omitted or supplied (and not
\* blank), the first line of the returned text is a bare root declaration,
\* the supplied root type when one is given, and parseZW of the text
\* returns a success node.
C5_OutputStartsWithRootLine ==
  (Converted /\ jsonString.ok /\ (rootZwType = {} \/ RootGiven(rootZwType)))
    => /\ IsRootLine(OutputLines[1])
       /\ RootGiven(rootZwType) => OutputLines[1] = RootLine(rootZwType)
       /\ Returns => IsSuccess(result)

\* ------------------------------------------------------------------------
\* Properties of the round trip JSON -> ZW -> tree -> JSON
\* ------------------------------------------------------------------------

ZwTest == <<"Z", "W", "-", "T", "E", "S", "T">>

ZwT == <<"Z", "W", "-", "T">>

\* the conversion of the parse result to JSON has run
Walked == source = "json" /\ pc = "json"

\* a string the quoting rule calls ambiguous-looking: empty, a boolean or
\* null word, or a text that round-trips through numeric conversion
LooksAmbiguous(s) ==
  \/ s = <<>>
  \/ toLowerCase(s) \in {TrueText, FalseText, NullText}
  \/ String(Number(s)) = s

RECURSIVE HasAmbiguousString(_)
HasAmbiguousString(v) ==
  \/ v.t = "str" /\ LooksAmbiguous(v.s)
  \/ v.t = "arr" /\ \E k \in 1..Len(v.items) : HasAmbiguousString(v.items[k])
  \/ v.t = "obj" /\ \E k \in 1..Len(v.items) : HasAmbiguousString(v.items[k].v)

\* C6: round trip. For a JSON object J (of nested objects, arrays, numbers,
\* booleans, null and strings) without ambiguous-looking strings,
\* serialized under the root type ZW-TEST, parsed, and converted to JSON by
\* the rules of section 4.3, the value obtained equals J.
C6_RoundTrip ==
  (Walked /\ jsonString.ok /\ rootZwType = {ZwTest}
          /\ jsonString.value.t = "obj"
          /\ ~HasAmbiguousString(jsonString.value))
    => jsonObj = jsonString.value

\* the root type is supplied and is an identifier over [A-Za-z0-9_-]
RootIsIdentifier ==
  /\ RootGiven(rootZwType)
  /\ AllIn(CHOOSE r \in rootZwType : TRUE, RootChars)

IsScalar(v) == v.t \in {"null", "bool", "num", "str"}

\* the JSON root is an object with one property
SoleProperty ==
  jsonString.ok /\ jsonString.value.t = "obj" /\ Len(jsonString.value.items) = 1

TheProperty == jsonString.value.items[1]

\* the text before the value of the only property of the root object
PropertyPrefix ==
  RootLine(rootZwType) \o <<"\n">> \o Indent(1) \o TheProperty.k \o <<":", " ">>

\* the text the serializer wrote for the value of that property
EmittedText == Tail_(zwString, Len(PropertyPrefix) + 1)

\* an unquoted string as it is laid out at a level: the first line as it
\* is, each further line behind the indentation of the level
UnquotedText(s, level) ==
  JoinLines([k \in 1..Len(SplitLines(s)) |->
               IF k = 1 THEN SplitLines(s)[k] ELSE Indent(level) \o SplitLines(s)[k]])

FortyTwo == <<"4", "2">>

\* C7: a string is emitted in double quotes exactly when it is empty, or
\* its lowercase form is true, false or null, or String(Number(s)) = s;
\* other strings are emitted unquoted, numbers and booleans bare; the
\* string 42 and the number 42 give different texts, which convert back to
\* a JSON string and a JSON number. Stated of the only property of a root
\* object serialized under a root type.
C7_QuotedIffRoundTrips ==
  (Converted /\ SoleProperty /\ IsScalar(TheProperty.v) /\ RootIsIdentifier)
    => LET v == TheProperty.v
       IN  /\ StartsWith(zwString, PropertyPrefix)
           /\ v.t = "str" =>
                EmittedText = (IF LooksAmbiguous(v.s)
                               THEN <<"\"">> \o EscapeQuotes(v.s) \o <<"\"">>
                               ELSE UnquotedText(v.s, 1))
           /\ v.t = "num" => EmittedText = NumberToString(v.n)
           /\ v.t = "bool" => EmittedText = (IF v.b THEN TrueText ELSE FalseText)
           /\ v = JStr(FortyTwo) =>
                /\ EmittedText = <<"\"">> \o FortyTwo \o <<"\"">>
                /\ pc = "json" =>
                     /\ jsonObj.t = "obj"
                     /\ Len(jsonObj.items) = 1
                     /\ jsonObj.items[1].k = TheProperty.k
                     /\ jsonObj.items[1].v.t = "str"
           /\ v = JNum(42) =>
                /\ EmittedText = FortyTwo
                /\ pc = "json" => jsonObj = JObj(<<Prop(TheProperty.k, JNum(42))>>)

\* C8: the object with the empty string as its only property a, under root
\* ZW-T, serializes to the two lines ZW-T: and a: "" (indented by two
\* spaces), and parsing and converting that text gives the same object
\* back.
C8_EmptyStringRoundTrip ==
  (Converted /\ jsonString = Parsed(JObj(<<Prop(<<"a">>, JStr(<<>>))>>))
             /\ rootZwType = {ZwT})
    => /\ zwString = ZwT \o <<":", "\n", " ", " ", "a", ":", " ", "\"", "\"">>
       /\ pc = "json" => jsonObj = jsonString.value

\* ------------------------------------------------------------------------
\* Properties of lists of objects and of multi-line scalars
\* ------------------------------------------------------------------------

IsListOfObjects(v) ==
  /\ v.t = "arr"
  /\ v.items # <<>>
  /\ \A k \in 1..Len(v.items) :
       /\ v.items[k].t = "obj"
       /\ Len(v.items[k].items) = 1
       /\ IsScalar(v.items[k].items[1].v)

\* The only property of the root object is either the property looked at,
\* or an object whose only property is the property looked at.
IsNested == TheProperty.v.t = "obj"

InnerProperty == IF IsNested THEN TheProperty.v.items[1] ELSE TheProperty

InnerLevel == (IF RootGiven(rootZwType) THEN 1 ELSE 0) + (IF IsNested THEN 1 ELSE 0)

HasInnerProperty ==
  /\ SoleProperty
  /\ IsNested => Len(TheProperty.v.items) = 1

HasListOfObjects == HasInnerProperty /\ IsListOfObjects(InnerProperty.v)

\* the text of a scalar
ScalarText(v) == convertValueToZw(v, 0)

\* the header of the list and one line per element, two spaces deeper
ListLines ==
  <<Indent(InnerLevel) \o InnerProperty.k \o <<":">>>>
    \o [k \in 1..Len(InnerProperty.v.items) |->
          Indent(InnerLevel + 1) \o <<"-", " ">>
            \o InnerProperty.v.items[k].items[1].k \o <<":", " ">>
            \o ScalarText(InnerProperty.v.items[k].items[1].v)]

EndsWithLines(ls) ==
  /\ Len(OutputLines) >= Len(ls)
  /\ SubSeq(OutputLines, Len(OutputLines) - Len(ls) + 1, Len(OutputLines)) = ls

\* under the section of the list property there is one key-value list item
\* per element, in order
ListItemsParsed ==
  /\ result.tag = "node"
  /\ \E n \in 1..Len(result.nodes) :
       LET node == result.nodes[n]
       IN  /\ node.kind = "node"
           /\ node.key = InnerProperty.k
           /\ node.vtype = "arr"
           /\ Len(node.kids) = Len(InnerProperty.v.items)
           /\ \A k \in 1..Len(node.kids) :
                LET item == result.nodes[node.kids[k]]
                    elem == InnerProperty.v.items[k].items[1]
                IN  /\ item.kind = "item"
                    /\ item.isKeyValue
                    /\ item.itemKey = {elem.k}
                    /\ item.vtype = "str"
                    /\ item.str = ScalarText(elem.v)

\* the text of every element value holds no line break and no whitespace
\* at its ends
HasPlainValues ==
  \A k \in 1..Len(InnerProperty.v.items) :
    LET text == ScalarText(InnerProperty.v.items[k].items[1].v)
    IN  /\ \A j \in 1..Len(text) : text[j] \notin {"\n", "\r"}
        /\ Trim(text) = text

\* C9: for a property whose value is a non-empty array of single-property
\* objects with scalar values (of one line, without whitespace at the
\* ends), serialized under a root type, the serializer emits the header
\* and one line - x: v per element two spaces deeper, and parseZW puts
\* under the section one key-value list item per element, in order, with
\* itemKey the property name and value the text of v.
C9_ListOfObjects ==
  (Converted /\ HasListOfObjects /\ RootIsIdentifier /\ HasPlainValues)
    => /\ EndsWithLines(ListLines)
       /\ Returns => ListItemsParsed

IsMultiLine(v) == v.t = "str" /\ "\n" \in {v.s[k] : k \in 1..Len(v.s)}

HasMultiLineScalar == HasInnerProperty /\ IsMultiLine(InnerProperty.v)

\* the first line after the key, each further line on a line of its own
\* behind the indentation of the level
MultiLineLines ==
  LET lines == SplitLines(InnerProperty.v.s)
  IN  [k \in 1..Len(lines) |->
         IF k = 1 THEN Indent(InnerLevel) \o InnerProperty.k \o <<":", " ">> \o lines[k]
         ELSE Indent(InnerLevel) \o lines[k]]

MultiLineParsed ==
  /\ result.tag = "node"
  /\ \E n \in 1..Len(result.nodes) :
       /\ result.nodes[n].kind = "node"
       /\ result.nodes[n].key = InnerProperty.k
       /\ result.nodes[n].vtype = "str"
       /\ result.nodes[n].str = InnerProperty.v.s

\* C10: a string value with newline characters, at the first or the second
\* nesting depth under a root type, is emitted with its first line after
\* the key and each further line on a line of its own at the indentation
\* of the level, and parseZW of the text yields for the key a scalar equal
\* to the original string.
C10_MultiLineRoundTrip ==
  (Converted /\ HasMultiLineScalar /\ RootIsIdentifier)
    => /\ EndsWithLines(MultiLineLines)
       /\ Returns => MultiLineParsed

\* ------------------------------------------------------------------------
\* Properties of the tree built by parseZW
\* ------------------------------------------------------------------------

\* parseZW has returned a node that is not error-tagged
Succeeded == Returns /\ IsSuccess(result)

SectionAtTwo == <<" ", " ", "s", ":">>

LeafAtThree == <<" ", " ", " ", "b", ":", " ", "2">>

\* C11: the depth of every non-root line is an integer (depths are kept
\* doubled, so every stored depth is even), and a line indented by 3
\* spaces that follows a section opener indented by 2 spaces becomes the
\* sibling of the section, a child of the root, not a child of the
\* section.
C11_DepthIsIntegerDivision ==
  Succeeded
    => /\ \A n \in 1..Len(result.nodes) : result.nodes[n].depth % 2 = 0
       /\ (Len(semanticLines) = 3 /\ semanticLines[2] = SectionAtTwo
                                  /\ semanticLines[3] = LeafAtThree)
            => /\ result.nodes[1].kids = <<2, 3>>
               /\ result.nodes[2].kids = <<>>

\* a blank line, a line of whitespace, or a line that starts with #
IsInvisible(line) == Trim(line) = <<>> \/ StartsWith(line, <<"#">>)

IsVisible(line) == ~IsInvisible(line)

\* the document without its blank and comment lines
VisibleText(text) == JoinLines(SelectSeq(SplitLines(text), IsVisible))

IsFenced(text) == FenceMatches(Trim(text))

\* C12: blank lines and comment lines are invisible. An unfenced document
\* that holds such lines parses to the same tree as the document without
\* them.
C12_CommentsAreInvisible ==
  (Returns /\ ~IsFenced(zwString) /\ ~IsFenced(VisibleText(zwString)))
    => result = parseZW(VisibleText(zwString), options)

\* C13: validateZWContent returns true exactly when parseZW of the
\* content returns a success root: it returns false when parseZW returns
\* null and when it returns an error-tagged node.
C13_ValidatorRejectsErrors ==
  pc = "validated" => (valid <=> IsSuccess(parseZW(zwString, {})))

\* the line is an identifier over [A-Za-z0-9_-] of length k, the delimiter,
\* and nothing but whitespace
DelimiterAt(line, k, delim) ==
  /\ k >= 1
  /\ AllIn(SubSeq(line, 1, k), RootChars)
  /\ StartsWith(Tail_(line, k + 1), delim)
  /\ AllIn(Tail_(line, k + Len(delim) + 1), Whitespace)

IsRootDeclarationWith(line, delim) == \E k \in 1..Len(line) : DelimiterAt(line, k, delim)

DeclaredTypeWith(line, delim) ==
  SubSeq(line, 1, CHOOSE k \in 1..Len(line) : DelimiterAt(line, k, delim))

\* C14: with a delimiter passed in the options, a first semantic line made
\* of an identifier, that delimiter and nothing else is accepted as the
\* root declaration: parseZW returns a success node with the identifier
\* as its key.
C14_RootUsesTheDelimiter ==
  (Returns /\ options # {} /\ semanticLines # <<>>
           /\ IsRootDeclarationWith(semanticLines[1], EffectiveDelimiter(options)))
    => /\ IsSuccess(result)
       /\ result.nodes[1].key = DeclaredTypeWith(semanticLines[1], EffectiveDelimiter(options))

\* the kinds (node or item) of the elements of the value of node n
KindsUnder(tree, n) == {tree[tree[n].kids[k]].kind : k \in 1..Len(tree[n].kids)}

\* C15: in every tree of a successful parse the value of each node is a
\* scalar string, or a sequence of nodes only, or a sequence of list items
\* only: no sequence mixes list items and nodes.
C15_ValueShape ==
  Succeeded
    => \A n \in 1..Len(result.nodes) :
         \/ result.nodes[n].vtype = "str" /\ result.nodes[n].kids = <<>>
         \/ result.nodes[n].vtype = "arr" /\ KindsUnder(result.nodes, n) \subseteq {"node"}
         \/ result.nodes[n].vtype = "arr" /\ KindsUnder(result.nodes, n) \subseteq {"item"}

\* ------------------------------------------------------------------------
\* Properties of the serializer output for an empty object
\* ------------------------------------------------------------------------

\* the text starts with the root line of the root type and no line after
\* it holds anything
IsRootLineAlone ==
  /\ OutputLines[1] = RootLine(rootZwType)
  /\ \A k \in 2..Len(OutputLines) : Trim(OutputLines[k]) = <<>>

\* C16: for a non-blank root type T the empty object serializes to exactly
\* the root line T: (no newline after it, no other line), and the empty
\* object is the only valid JSON value whose output is a root line with
\* nothing beneath it.
C16_EmptyObjectIsRootLineOnly ==
  (Converted /\ jsonString.ok /\ RootGiven(rootZwType))
    => /\ jsonString.value = JObj(<<>>) => zwString = RootLine(rootZwType)
       /\ IsRootLineAlone => jsonString.value = JObj(<<>>)

\* ------------------------------------------------------------------------
\* Properties of the stack of open nodes
\* ------------------------------------------------------------------------

\* the stack is not empty, its bottom is the root, the depths of its nodes
\* increase strictly from bottom to top, and above the root it holds
\* sections only
StackIsOrdered(tree, open) ==
  /\ open # <<>>
  /\ open[1] = 1
  /\ \A k \in 1..(Len(open) - 1) : tree[open[k]].depth < tree[open[k + 1]].depth
  /\ \A k \in 1..Len(open) : tree[open[k]].kind = "node" /\ tree[open[k]].vtype = "arr"

\* the positions of the stack that stay open for a line of the depth: the
\* root, and the nodes strictly shallower than the line
StaysOpen(depth) == {k \in 1..Len(stack) : k = 1 \/ nodes[stack[k]].depth < depth}

\* one line is processed: the stack is cut above the innermost open node
\* that is strictly shallower than the line, a node the line creates is
\* appended to the value of that node, and only a section is pushed
LineIsAttached ==
  LET depth  == DepthOf(getIndentation(semanticLines[i]))
      top    == SetMax(StaysOpen(depth))
      parent == stack[top]
  IN  /\ StaysOpen(depth) = 1..top
      /\ SubSeq(stack', 1, top) = SubSeq(stack, 1, top)
      /\ Len(stack') \in {top, top + 1}
      /\ Len(nodes') \in {Len(nodes), Len(nodes) + 1}
      /\ Len(nodes') = Len(nodes) + 1 =>
           /\ nodes'[parent].kids = Append(nodes[parent].kids, Len(nodes'))
           /\ nodes'[Len(nodes')].depth = depth
      /\ Len(stack') = top + 1 =>
           /\ Len(nodes') = Len(nodes) + 1
           /\ stack'[top + 1] = Len(nodes')
           /\ nodes'[Len(nodes')].kind = "node"
           /\ nodes'[Len(nodes')].vtype = "arr"

StackStep ==
  /\ pc' = "loop" => StackIsOrdered(nodes', stack')
  /\ (pc = "loop" /\ i' = i + 1) => LineIsAttached

\* C17: while parseZW runs its loop the stack is never empty, its bottom
\* is the root, the depths of its nodes increase strictly from bottom to
\* top, and it holds only the root and sections; each line pops the nodes
\* whose depth is at least its own, never the root, and is attached to
\* the innermost node left, the one strictly shallower than the line.
C17_StackDiscipline == [][StackStep]_vars

\* a line has popped two sections at once: the stack held the root, a
\* section and a section nested in it, and holds the root and a new
\* section
C17_Witness ==
  /\ pc = "loop"
  /\ i = 5
  /\ Len(nodes) = 4
  /\ nodes[2].kids = <<3>>
  /\ stack = <<1, 4>>

\* ------------------------------------------------------------------------
\* Properties of leaves and of continuation lines
\* ------------------------------------------------------------------------

IsLeaf(node) == node.kind = "node" /\ node.vtype = "str"

\* the node that holds n in its value
HolderOf(tree, n) ==
  CHOOSE p \in 1..Len(tree) : \E k \in 1..Len(tree[p].kids) : tree[p].kids[k] = n

\* the line being processed
CurrentLine == semanticLines[i]

IsListItemLine == StartsWith(Trim(CurrentLine), <<"-", " ">>)

\* the line is key, delimiter, whitespace, text; the text does not start
\* with whitespace
IsKeyValueOf(line, key, text) ==
  LET delim == EffectiveDelimiter(options)
      rest  == Tail_(line, Len(key) + Len(delim) + 1)
  IN  /\ key # <<>>
      /\ AllIn(key, WordChars)
      /\ StartsWith(line, key \o delim)
      /\ Len(rest) >= Len(text)
      /\ Tail_(rest, Len(rest) - Len(text) + 1) = text
      /\ AllIn(SubSeq(rest, 1, Len(rest) - Len(text)), Whitespace)
      /\ text # <<>>
      /\ text[1] \notin Whitespace

\* a node was created and it is a leaf
LeafCreated == Len(nodes') = Len(nodes) + 1 /\ IsLeaf(nodes'[Len(nodes')])

\* the last child of the node on top of the stack after the pop is a leaf
\* shallower than the line
FollowsShallowerLeaf ==
  LET depth  == DepthOf(getIndentation(CurrentLine))
      parent == stack'[SetMax(StaysOpen(depth))]
  IN  /\ nodes[parent].kids # <<>>
      /\ IsLeaf(nodes[nodes[parent].kids[Len(nodes[parent].kids)]])
      /\ nodes[nodes[parent].kids[Len(nodes[parent].kids)]].depth < depth

LeafStep ==
  /\ \A k \in 1..Len(stack') : ~IsLeaf(nodes'[stack'[k]])
  /\ \A n \in 1..Len(nodes) :
       IsLeaf(nodes[n]) => /\ IsLeaf(nodes'[n])
                           /\ nodes'[n].kids = <<>>
                           /\ nodes'[n].key = nodes[n].key
                           /\ nodes'[n].depth = nodes[n].depth
  /\ (pc = "loop" /\ i' = i + 1 /\ LeafCreated) =>
       /\ IsKeyValueOf(Trim(CurrentLine), nodes'[Len(nodes')].key, nodes'[Len(nodes')].str)
       /\ stack' = SubSeq(stack, 1, Len(stack'))
  /\ (pc = "loop" /\ i' = i + 1 /\ Len(nodes') = Len(nodes) + 1 /\ FollowsShallowerLeaf) =>
       LET parent == stack'[SetMax(StaysOpen(DepthOf(getIndentation(CurrentLine))))]
           leaf   == nodes[parent].kids[Len(nodes[parent].kids)]
       IN  /\ HolderOf(nodes', Len(nodes')) = HolderOf(nodes', leaf)
           /\ nodes'[HolderOf(nodes', leaf)].kids
                = Append(nodes[HolderOf(nodes, leaf)].kids, Len(nodes'))

\* C18: a key-value line creates a leaf that holds the text after the
\* delimiter and is not pushed on the stack; a line that creates a node and
\* is indented deeper than the preceding leaf is attached to the node that
\* holds the leaf, as the sibling of the leaf; a leaf stays a leaf, with
\* its key and depth, and its value never becomes a sequence.
C18_LeavesNeverBecomeParents == [][LeafStep]_vars

\* a section indented deeper than the leaf before it has become the
\* sibling of the leaf
C18_Witness ==
  /\ Returns
  /\ result.tag = "node"
  /\ Len(result.nodes) = 3
  /\ result.nodes[1].kids = <<2, 3>>
  /\ IsLeaf(result.nodes[2])
  /\ result.nodes[3].kind = "node"
  /\ result.nodes[3].vtype = "arr"
  /\ result.nodes[3].depth > result.nodes[2].depth

\* the line is no list item, no section opener and no key-value line
IsContinuationLine ==
  /\ ~IsListItemLine
  /\ ~SectionMatches(Trim(CurrentLine), EffectiveDelimiter(options))
  /\ ~KeyValueMatches(Trim(CurrentLine), EffectiveDelimiter(options))

\* a line without its leading whitespace
Unindented(line) == Tail_(line, PrefixLen(line, Whitespace) + 1)

\* the loop processes a continuation line whose parent has a scalar as the
\* last element of its value
ContinuesScalar ==
  /\ pc = "loop"
  /\ i' = i + 1
  /\ IsContinuationLine
  /\ LET parent == stack'[Len(stack')]
     IN  /\ nodes[parent].kids # <<>>
         /\ nodes[nodes[parent].kids[Len(nodes[parent].kids)]].vtype = "str"

\* the scalar grows by a newline and the content of the line, behind
\* leading whitespace when the line is indented deeper than the scalar it
\* continues; nothing else changes
ScalarIsExtended ==
  LET parent == stack'[Len(stack')]
      last   == nodes[parent].kids[Len(nodes[parent].kids)]
      added  == Tail_(nodes'[last].str, Len(nodes[last].str) + 2)
  IN  /\ Len(nodes') = Len(nodes)
      /\ \A n \in 1..Len(nodes) : n # last => nodes'[n] = nodes[n]
      /\ nodes'[last] = [nodes[last] EXCEPT !.str = nodes'[last].str]
      /\ nodes'[last].str = nodes[last].str \o <<"\n">> \o added
      /\ Unindented(added) = Unindented(CurrentLine)
      /\ DepthOf(getIndentation(CurrentLine)) > nodes[last].depth
           => (added # <<>> /\ added[1] \in Whitespace)

\* C19: a continuation line appends a newline and its content, with its
\* leading indentation preserved, to the scalar of the most recently
\* appended child or list item of the current parent; it creates no node
\* and changes no other node.
C19_ContinuationKeepsIndentation == [][ContinuesScalar => ScalarIsExtended]_vars

\* the text occurs in the string
Occurs(text, s) ==
  \E a \in 1..(Len(s) - Len(text) + 1) : SubSeq(s, a, a + Len(text) - 1) = text

\* the line matches none of the structural patterns
IsStray(line) ==
  /\ ~StartsWith(Trim(line), <<"-", " ">>)
  /\ ~SectionMatches(Trim(line), EffectiveDelimiter(options))
  /\ ~KeyValueMatches(Trim(line), EffectiveDelimiter(options))

\* the text of the line is part of a scalar of the tree
IsAbsorbed(tree, line) ==
  \E n \in 1..Len(tree) : tree[n].vtype = "str" /\ Occurs(Trim(line), tree[n].str)

\* C20: a non-root line that matches none of the structural patterns is
\* never lost: when the parse returns a success root, the text of every
\* such line is present in a scalar of the returned tree, also when the
\* line follows a section opener.
C20_StrayLinesAreAbsorbed ==
  Succeeded =>
    \A k \in 2..Len(semanticLines) :
      IsStray(semanticLines[k]) => IsAbsorbed(result.nodes, semanticLines[k])

\* the line being processed is a key and the delimiter, followed by nothing
\* or by whitespace only
IsKeyWithEmptyValue ==
  LET delim == EffectiveDelimiter(options)
      line  == CurrentLine
      start == PrefixLen(line, Whitespace)
  IN  \E n \in 1..Len(line) :
        /\ n > start
        /\ AllIn(SubSeq(line, start + 1, n), WordChars)
        /\ StartsWith(Tail_(line, n + 1), delim)
        /\ AllIn(Tail_(line, n + Len(delim) + 1), Whitespace)

\* the loop processes a line that is no list item
NodeLineStep == pc = "loop" /\ i' = i + 1 /\ ~IsListItemLine

\* the node the step created
Created == nodes'[Len(nodes')]

\* C21: a section opener yields a node whose value is an empty child
\* sequence, and a key line whose trailing value is empty (the key and the
\* delimiter followed by nothing or by whitespace only) yields a leaf whose
\* value is the empty string.
C21_EmptyCases ==
  [][/\ (NodeLineStep /\ SectionMatches(Trim(CurrentLine), EffectiveDelimiter(options)))
          => /\ Len(nodes') = Len(nodes) + 1
             /\ Created.kind = "node"
             /\ Created.vtype = "arr"
             /\ Created.kids = <<>>
     /\ (NodeLineStep /\ IsKeyWithEmptyValue)
          => /\ Len(nodes') = Len(nodes) + 1
             /\ IsLeaf(Created)
             /\ Created.str = <<>>]_vars

\* C21 (amended): a key line whose trailing value is empty is a section
\* opener: it yields a node whose value is an empty child sequence and
\* that is pushed on the stack, never a leaf; no leaf of the tree holds the
\* empty string.
C21_EmptyValueOpensSection ==
  [][/\ (NodeLineStep /\ IsKeyWithEmptyValue)
          => /\ Len(nodes') = Len(nodes) + 1
             /\ Created.kind = "node"
             /\ Created.vtype = "arr"
             /\ Created.kids = <<>>
             /\ stack'[Len(stack')] = Len(nodes')
     /\ \A n \in 1..Len(nodes') : IsLeaf(nodes'[n]) => nodes'[n].str # <<>>]_vars

C21_Witness ==
  /\ Succeeded
  /\ semanticLines = <<ZwT \o <<":">>, SectionAtTwo>>
  /\ Len(result.nodes) = 2
  /\ result.nodes[2].vtype = "arr"
  /\ result.nodes[2].kids = <<>>

\* the content of the list-item line being processed, behind the dash
ItemContent == Trim(Tail_(Trim(CurrentLine), 3))

\* the ways to read the content as key, delimiter, value: the length of
\* the key
ItemKeySplits ==
  { n \in 1..Len(ItemContent) :
      /\ AllIn(SubSeq(ItemContent, 1, n), WordChars)
      /\ StartsWith(Tail_(ItemContent, n + 1), EffectiveDelimiter(options)) }

ListItemStep ==
  (pc = "loop" /\ i' = i + 1 /\ IsListItemLine) =>
    LET parent == stack'[Len(stack')]
    IN  /\ Len(nodes') = Len(nodes) + 1
        /\ \A n \in 1..Len(nodes) :
             n # parent => nodes'[n] = nodes[n]
        /\ nodes'[parent] = [nodes[parent] EXCEPT !.kids = Append(@, Len(nodes'))]
        /\ stack' = SubSeq(stack, 1, Len(stack'))
        /\ Created.kind = "item"
        /\ Created.kids = <<>>
        /\ IF ItemKeySplits # {}
           THEN /\ Created.isKeyValue
                /\ \E n \in ItemKeySplits :
                     /\ Created.itemKey = {SubSeq(ItemContent, 1, n)}
                     /\ Created.str =
                          Unindented(Tail_(ItemContent, n + Len(EffectiveDelimiter(options)) + 1))
           ELSE /\ ~Created.isKeyValue
                /\ Created.str = ItemContent

\* C22: a non-root line whose trimmed content starts with a dash and a
\* space yields exactly one list item appended to the active parent and no
\* node; content of the form key, delimiter, value gives isKeyValue true,
\* itemKey the key and value the text after the delimiter, other content
\* is the value as it stands; itemKey is present exactly when isKeyValue
\* is true, and no list item is on the stack.
C22_ListItems ==
  [][/\ ListItemStep
     /\ \A n \in 1..Len(nodes') :
          /\ nodes'[n].kind = "item" =>
               /\ nodes'[n].isKeyValue <=> nodes'[n].itemKey # {}
               /\ \A k \in 1..Len(stack') : stack'[k] # n
          /\ nodes'[n].kind = "node" => nodes'[n].itemKey = {} /\ ~nodes'[n].isKeyValue]_vars

C22_Witness ==
  /\ Succeeded
  /\ \E a, b \in 2..Len(result.nodes) :
       /\ result.nodes[1].kids = <<a, b>>
       /\ result.nodes[a] = ZWListItem(<<"p">>, FALSE, {}, 2)
       /\ result.nodes[b] = ZWListItem(<<"1">>, TRUE, {<<"x">>}, 4)

\* the document between an opening fence, bare or with a language tag, and
\* a closing fence, each on a line of its own
Wrappings(text) ==
  { Backticks \o tag \o <<"\n">> \o text \o <<"\n">> \o Backticks :
      tag \in {<<>>, <<"z", "w">>} }

HasSemanticLine(text) == SelectSeq(SplitLines(text), IsSemantic) # <<>>

\* the first semantic line of the trimmed document
FirstSemanticLine(text) == SelectSeq(SplitLines(Trim(text)), IsSemantic)[1]

\* C23: for a document with a semantic line, the document wrapped in one
\* code fence parses to the result of the document itself; a document that
\* is fenced twice is parsed with the inner fence line as its first
\* semantic line.
C23_FenceIsTransparent ==
  (Returns /\ HasSemanticLine(zwString)) =>
    \A wrapped \in Wrappings(zwString) :
      /\ parseZW(wrapped, options) = result
      /\ IsFenced(zwString) =>
           parseZW(wrapped, options) = Returned(<<InvalidRoot(FirstSemanticLine(zwString))>>)

\* C23 (amended): the same for a document that is not itself fenced; a
\* fenced document wrapped in a further fence loses the outer fence only,
\* and the result is the invalid-root error that shows the inner fence line.
C23_OuterFenceIsStrippedOnce ==
  (Returns /\ HasSemanticLine(zwString)) =>
    \A wrapped \in Wrappings(zwString) :
      IF IsFenced(zwString)
      THEN parseZW(wrapped, options) = Returned(<<InvalidRoot(FirstSemanticLine(zwString))>>)
      ELSE parseZW(wrapped, options) = result

C23_Witness ==
  /\ Succeeded
  /\ IsFenced(zwString)
  /\ \A wrapped \in Wrappings(zwString) : IsErrorTagged(parseZW(wrapped, options))

C23_WitnessUnfenced ==
  /\ Succeeded
  /\ ~IsFenced(zwString)
  /\ Len(result.nodes) > 1
  /\ \A wrapped \in Wrappings(zwString) : parseZW(wrapped, options) = result

\* the output line opens a list element with the first property of an
\* object of the inputs
IsDashLine(line) == StartsWith(Trim(line), <<"-", " ", "x", ":">>)

\* the output line holds the second property of such an object
IsSecondPropertyLine(line) == StartsWith(Trim(line), <<"y", ":">>)

\* C24: for an array element that is an object with two or more
\* properties, the first property is written on the dash line and every
\* further property line starts at the column of the first property key:
\* the indentation of the dash plus 2.
C24_PropertiesAlignUnderTheFirst ==
  (Converted /\ jsonString.ok) =>
    \A k \in 1..(Len(OutputLines) - 1) :
      (IsDashLine(OutputLines[k]) /\ IsSecondPropertyLine(OutputLines[k + 1]))
        => getIndentation(OutputLines[k + 1]) = getIndentation(OutputLines[k]) + 2

\* the first semantic line as the message shows it, between double quotes
ShownLine(line) ==
  <<"\"">> \o SubSeq(line, 1, Min(ShownChars, Len(line)))
           \o (IF Len(line) > ShownChars THEN <<".", ".", ".">> ELSE <<>>)
           \o <<"\"">>

\* C25: the error result is a node with the key Error: Invalid Root, depth
\* 0 and a string value that holds the first semantic line cut to its
\* first 70 characters, followed by three dots exactly when the line is
\* longer; it has no children, and it is determined by the first semantic
\* line alone.
C25_ErrorShape ==
  (Returns /\ IsErrorTagged(result)) =>
    /\ Len(result.nodes) = 1
    /\ result.nodes[1].kind = "node"
    /\ result.nodes[1].key = ErrorKey
    /\ result.nodes[1].depth = 0
    /\ result.nodes[1].vtype = "str"
    /\ result.nodes[1].kids = <<>>
    /\ Occurs(ShownLine(semanticLines[1]), result.nodes[1].str)
    /\ result = Returned(<<InvalidRoot(semanticLines[1])>>)

C25_Witness ==
  /\ Returns
  /\ IsErrorTagged(result)
  /\ Len(semanticLines) = 2
  /\ Len(semanticLines[1]) > ShownChars
  /\ Occurs(<<"x", ".", ".", ".", "\"">>, result.nodes[1].str)
  /\ ~Occurs(<<"y">> , SubSeq(result.nodes[1].str, Len(ErrorHead) + 1, Len(ErrorHead) + ShownChars + 1))

\* the depths of a tree: the root alone has depth 0, and every element is
\* deeper than the node that holds it (depths are stored doubled)
DepthsAreOrdered(tree) ==
  /\ tree[1].depth = 0
  /\ \A n \in 2..Len(tree) : tree[n].depth >= 2
  /\ \A p \in 1..Len(tree) : \A k \in 1..Len(tree[p].kids) :
       tree[tree[p].kids[k]].depth > tree[p].depth

\* the loop processes an unindented line that reads as a type declaration
SecondDeclarationStep == pc = "loop" /\ i' = i + 1 /\ RootMatches(CurrentLine)

\* C26: in the tree of a successful parse the root is the only node of
\* depth 0, every other element has depth 1 or more and is deeper than the
\* node that holds it; a later unindented line that reads as a type
\* declaration becomes a child of the root at depth 1, named after it.
C26_SingleRoot ==
  [][/\ (pc' \in {"loop", "done"} /\ nodes' # <<>>) => DepthsAreOrdered(nodes')
     /\ SecondDeclarationStep =>
          /\ Len(nodes') = Len(nodes) + 1
          /\ Created.kind = "node"
          /\ Created.key = RootKey(CurrentLine)
          /\ Created.depth = 2
          /\ nodes'[1].kids = Append(nodes[1].kids, Len(nodes'))]_vars

\* the identifier the line being processed starts with: letters, digits,
\* underscore and hyphen
Ident == SubSeq(Trim(CurrentLine), 1, PrefixLen(Trim(CurrentLine), RootChars))

\* the line is an identifier and the delimiter, with or without a value
IsKeyedLine ==
  /\ Ident # <<>>
  /\ StartsWith(Tail_(Trim(CurrentLine), Len(Ident) + 1), EffectiveDelimiter(options))

\* C27: a non-root line that is an identifier of letters, digits,
\* underscore and hyphen followed by the delimiter, with or without a
\* value, produces a section or leaf child whose key is the identifier.
C27_HyphenatedChildKeys ==
  [][(NodeLineStep /\ IsKeyedLine) =>
       /\ Len(nodes') = Len(nodes) + 1
       /\ Created.kind = "node"
       /\ Created.key = Ident]_vars

\* the parse took the error return: there is a first semantic line and it
\* is no root declaration
TookErrorReturn == semanticLines # <<>> /\ ~RootMatches(semanticLines[1])

\* C28: success and error results are disjoint under the key prefix: a
\* result that is not null has a key that starts with Error: exactly when
\* the parse took the error return, whatever the delimiter, and the
\* validator that tests the prefix accepts exactly the documents that
\* parse to a root.
C28_ErrorTagIsDisjoint ==
  Returns =>
    /\ result.tag = "node" => (IsErrorTagged(result) <=> TookErrorReturn)
    /\ validateZwContent(zwString) <=> (semanticLines # <<>> /\ RootMatches(semanticLines[1]))

C28_Witness ==
  /\ Succeeded
  /\ result.nodes[1].key = <<"E", "r", "r", "o", "r">>
  /\ Len(result.nodes) = 2
  /\ validateZwContent(zwString)

\* elements are numbered in the order of the lines that created them: the
\* child sequences of the tree are in that order
KidsInLineOrder(tree) ==
  \A p \in 1..Len(tree) : \A j, k \in 1..Len(tree[p].kids) :
    j < k => tree[p].kids[j] < tree[p].kids[k]

\* C29: a non-root semantic line creates at most one node or list item; the
\* elements of every child sequence are in the order of their source lines;
\* the number of nodes and list items below the root is at most the number
\* of non-root semantic lines.
C29_DocumentOrder ==
  [][(pc = "loop" /\ i' = i + 1) =>
       /\ Len(nodes') \in {Len(nodes), Len(nodes) + 1}
       /\ \A p \in 1..Len(nodes) :
            \/ nodes'[p].kids = nodes[p].kids
            \/ /\ Len(nodes') = Len(nodes) + 1
               /\ nodes'[p].kids = Append(nodes[p].kids, Len(nodes'))
       /\ KidsInLineOrder(nodes')
       /\ Len(nodes') - 1 <= i' - 2
       /\ Len(nodes') - 1 <= Len(semanticLines) - 1]_vars

C29_Witness ==
  /\ Succeeded
  /\ Len(semanticLines) = 4
  /\ Len(result.nodes) = 4
  /\ result.nodes[1].kids = <<2, 4>>
  /\ result.nodes[2].kids = <<3>>

\* C30: for a jsonString that is not valid JSON, parseZW of the text that
\* convertJsonToZwString returned gives the no-content result, null: no
\* success root and no error-tagged node, whatever the root type.
C30_ErrorDocumentHasNoContent ==
  (Returns /\ source = "json" /\ ~jsonString.ok) => result = Null

====
